---------------------------- MODULE Spec2Model ----------------------------
(***************************************************************************)
(* Model of FreeRTOS_Blink_LED/blinky_task.c: the producer task            *)
(* prvQueueSendTask, the consumer task prvQueueReceiveTask, the button     *)
(* interrupt handler xButtonsHandler and the start-up routine vBlinkyTask, *)
(* running on the FreeRTOS kernel (one-slot queue, fixed-priority          *)
(* preemptive scheduler, tick counter).                                    *)
(*                                                                         *)
(* Numbers.  TLC integers are 32-bit signed, so                            *)
(*   - a uint32_t (TickType_t, g_ui32TimeStamp) is a pair <<hi, lo>> of    *)
(*     16-bit halves, with arithmetic modulo 2^32;                         *)
(*   - a float (g_fSpeed) is its IEEE-754 binary32 bit pattern, a          *)
(*     positive normal number: biased exponent * 2^23 + fraction;          *)
(*   - the double constants (1 + BLINK_RATE) and (1 - BLINK_RATE) are      *)
(*     their 53-bit significands in 12-bit limbs, low limb first.          *)
(***************************************************************************)
EXTENDS Integers, Sequences, FiniteSets, TLC

----------------------------------------------------------------------------
(* uint32_t arithmetic                                                     *)

Half == 2^16

\* The uint32_t with value n, for 0 <= n < 2^31.
U32(n) == <<n \div Half, n % Half>>

\* a + b modulo 2^32.
U32Add(a, b) ==
    LET lo == a[2] + b[2]
        hi == a[1] + b[1] + (lo \div Half)
    IN  <<hi % Half, lo % Half>>

\* a - b modulo 2^32.
U32Sub(a, b) ==
    LET lo == a[2] - b[2]
        borrow == IF lo < 0 THEN 1 ELSE 0
        hi == a[1] - b[1] - borrow
    IN  <<hi % Half, lo % Half>>

\* a > b, as unsigned 32-bit numbers.
U32Gt(a, b) == a[1] > b[1] \/ (a[1] = b[1] /\ a[2] > b[2])

U32Lt(a, b) == U32Gt(b, a)

----------------------------------------------------------------------------
(* float arithmetic (IEEE-754 binary32, round to nearest, ties to even)    *)

\* The biased exponent and the 24-bit significand of a positive normal float.
FExp(f) == f \div 2^23
FMan(f) == 2^23 + (f % 2^23)

\* The float with 24-bit significand m (2^23 <= m <= 2^24) and biased
\* exponent e; a significand of 2^24 is renormalised.
FPack(m, e) ==
    IF m >= 2^24 THEN (e + 1) * 2^23 + ((m \div 2) - 2^23)
                 ELSE e * 2^23 + (m - 2^23)

\* Digits in base 2^12, low digit first, of the number whose digit k has the
\* (possibly too large) value cs[k], given an incoming carry.
RECURSIVE Carry(_, _)
Carry(cs, c) ==
    IF cs = <<>>
    THEN IF c = 0 THEN <<>> ELSE <<c>>
    ELSE <<(cs[1] + c) % 2^12>> \o Carry(Tail(cs), (cs[1] + c) \div 2^12)

\* Round to nearest even: the kept integer, incremented when the dropped
\* part rem (out of 2 * half) is more than half, or is half and kept is odd.
RoundEven(kept, rem, half, sticky) ==
    IF rem > half \/ (rem = half /\ (sticky \/ kept % 2 = 1))
    THEN kept + 1 ELSE kept

\* (float)((double) f * d): the float f is widened to double (exactly),
\* multiplied by the double d = M * 2^dexp in double arithmetic (the exact
\* 77-bit product rounded to 53 bits), and the result rounded to float.
\* M is given in 12-bit limbs, low limb first.
FloatMulDouble(f, M, dexp) ==
    LET m  == FMan(f)
        a  == m \div 2^12
        b  == m % 2^12
        p0 == Carry(<<b * M[1],
                      b * M[2] + a * M[1],
                      b * M[3] + a * M[2],
                      b * M[4] + a * M[3],
                      b * M[5] + a * M[4],
                      a * M[5],
                      0>>, 0)
        \* the product has 76 or 77 bits; make it 77
        dbl == IF p0[7] < 16 THEN 1 ELSE 0
        p  == IF dbl = 1 THEN Carry([k \in 1..7 |-> 2 * p0[k]], 0) ELSE p0
        \* to double: drop the low 24 bits (digits 1, 2), keep 53
        up1 == RoundEven(p[3] % 2, p[2], 2^11, p[1] > 0) # p[3] % 2
        q  == IF up1 THEN Carry(<<p[3] + 1, p[4], p[5], p[6], p[7]>>, 0)
                     ELSE <<p[3], p[4], p[5], p[6], p[7]>>
        \* to float: drop the low 29 bits (digits 1, 2 and 5 bits of 3), keep 24
        kept == q[5] * 2^19 + q[4] * 2^7 + (q[3] \div 32)
        m2 == RoundEven(kept, q[3] % 32, 16, q[2] > 0 \/ q[1] > 0)
    IN  FPack(m2, FExp(f) + dexp + 53 - dbl)

\* The number of bits of n > 0.
RECURSIVE BitLen(_)
BitLen(n) == IF n = 0 THEN 0 ELSE 1 + BitLen(n \div 2)

\* (float) k * f in float arithmetic, for an integer 0 < k < 2^12 (which
\* converts to float exactly): the exact product of the significands,
\* rounded to 24 bits.  The result is <<significand, exponent of its unit>>.
FloatMulInt(k, f) ==
    LET m  == FMan(f)
        a  == m \div 2^12
        b  == m % 2^12
        hi == a * k + ((b * k) \div 2^12)
        lo == (b * k) % 2^12
        s  == BitLen(hi) - 12
        kept == hi * 2^(12 - s) + (lo \div 2^s)
        m2 == IF s = 0 THEN kept
              ELSE RoundEven(kept, lo % 2^s, 2^(s - 1), FALSE)
    IN  <<m2, FExp(f) - 150 + s>>

\* (uint32_t) x for a float x = <<significand, exponent>>: truncation
\* toward zero.  (A value of 2^31 or more is outside the modelled range.)
FloatToTicks(x) ==
    IF x[2] >= 0 THEN x[1] * 2^x[2]
    ELSE IF -x[2] > 30 THEN 0
    ELSE x[1] \div 2^(-x[2])


----------------------------------------------------------------------------
(* Program constants                                                       *)

\* pdMS_TO_TICKS( 1000UL ) at the 1 kHz tick rate (one tick per millisecond).
mainQUEUE_SEND_FREQUENCY_MS == 1000

\* static TickType_t xShortBlock = pdMS_TO_TICKS( 500 ).
xShortBlock == 500

\* The debounce filter of xButtonsHandler, in ticks.
DebounceTicks == 200

\* const unsigned long ulValueToSend = 100UL, and the value the consumer expects.
ulValueToSend == 100

\* xQueueCreate( 1, sizeof( uint32_t ) ).
QueueLengthTwo == 1 + 1

QueueLength == 1

\* tskIDLE_PRIORITY + 2 and tskIDLE_PRIORITY + 1.
mainQUEUE_RECEIVE_TASK_PRIORITY == 2
mainQUEUE_SEND_TASK_PRIORITY == 1

\* volatile float g_fSpeed = 1: the bit pattern of 1.0f.
InitialSpeed == 127 * 2^23

\* The double (1 + BLINK_RATE) = 0x1.199999999999Ap+0: significand
\* 0x1199999999999A (12-bit limbs, low first), unit 2^-52.
OnePlusBlinkRate == <<2458, 2457, 2457, 2457, 17>>

\* The double (1 - BLINK_RATE) = 0x1.CCCCCCCCCCCCDp-1: significand
\* 0x1CCCCCCCCCCCCD, unit 2^-53.
OneMinusBlinkRate == <<3277, 3276, 3276, 3276, 28>>

\* The two buttons (interrupt lines) and the status words the handler can
\* read: at least one line pending.
RIGHT_BUTTON == "RIGHT"
LEFT_BUTTON == "LEFT"
ALL_BUTTONS == {RIGHT_BUTTON, LEFT_BUTTON}
StatusWords == (SUBSET ALL_BUTTONS) \ {{}}

Tasks == {"Rx", "Tx"}

----------------------------------------------------------------------------
(* Bounds of the model                                                     *)

\* Time stops after this many ticks.
MaxUptime == 2200

\* At most this many invocations of the interrupt handler.
MaxIrq == 2

\* Runs of ScenarioSpec and BootSpec stop after this many ticks.
ScenarioUptime == 500

\* At most this many tick interrupts arrive while a task is executing.
MaxLateTicks == 1

\* While every task is blocked, time advances to the next multiple of
\* TickGrid (of ScenarioGrid in the short runs) or to the next wake time,
\* whichever comes first: the handler is invoked at these instants (and at
\* late ticks) only.
TickGrid == 100

ScenarioGrid == 50

\* At most this many invocations of the handler in the runs of TrainSpec.
MaxTrain == 3

\* The runs of SlowDownSpec: at most this many presses of the left button,
\* this many ticks and this many calls of xQueueSend.
MaxPresses == 66

SlowDownUptime == 13300

MaxSends == 2500

----------------------------------------------------------------------------
(* State                                                                   *)

VARIABLES
    \* vBlinkyTask and the kernel
    bootPc,          \* position in vBlinkyTask / main
    queueCreated,    \* xQueue != NULL
    created,         \* the tasks xTaskCreate created
    xTickCount,      \* the kernel's tick counter (uint32_t)
    xQueue,          \* the items in the queue
    \* globals of blinky_task.c
    g_fSpeed,        \* float bit pattern
    g_ui32TimeStamp, \* uint32_t
    \* prvQueueSendTask
    txPc, txState, txWake, xNextWakeTime,
    \* prvQueueReceiveTask
    rxPc, rxState, rxWake, ulReceivedValue,
    \* the LED pins: "none" (never written), "active" (blue), "inactive" (red)
    pin,
    \* history (not program state)
    uptime,          \* ticks since the scheduler started, not wrapped
    lateTicks,       \* ticks that arrived while a task was executing
    nSent,           \* calls of xQueueSend
    nFailed,         \* calls of xQueueSend that returned errQUEUE_FULL
    nReceived,       \* items xQueueReceive returned
    nActivations,    \* times the pin was driven active
    txStartTick,     \* the tick prvQueueSendTask captured at its start
    sumPeriods,      \* sum of the increments passed to vTaskDelayUntil
    txWokeAt,        \* the tick at which the producer was last unblocked
    txLateness,      \* ticks by which its last vTaskDelayUntil call came
                     \* after the wake time before it
    rxSample,        \* g_fSpeed as read by the last vTaskDelay call
    rxDelayStart,    \* uptime of the last vTaskDelay call
    rxWokeAt,        \* uptime at which the consumer was last unblocked
    irqCount,        \* invocations of xButtonsHandler
    nUp, nDown,      \* invocations that applied (1 + step), (1 - step)
    trigAge,         \* per line, ticks since its last trigger, up to AgeCap
    lastIrq,         \* the last invocation
    scenario,        \* TRUE in the runs of ScenarioSpec
    irqLog           \* in those runs, the invocations so far

progVars == <<bootPc, queueCreated, created, xTickCount, xQueue, g_fSpeed,
              g_ui32TimeStamp, txPc, txState, txWake, xNextWakeTime,
              rxPc, rxState, rxWake, ulReceivedValue, pin>>
histVars == <<uptime, lateTicks, nSent, nFailed, nReceived, nActivations,
              txStartTick, sumPeriods, txWokeAt, txLateness, rxSample,
              rxDelayStart, rxWokeAt, irqCount, nUp, nDown, trigAge, lastIrq, scenario,
              irqLog>>
vars == <<progVars, histVars>>

bootVars == <<bootPc, queueCreated, created>>
txVars == <<txPc, txState, txWake, xNextWakeTime>>
rxVars == <<rxPc, rxState, rxWake, ulReceivedValue>>
irqVars == <<g_fSpeed, g_ui32TimeStamp>>
txHist == <<txStartTick, sumPeriods, txWokeAt, txLateness>>
rxHist == <<rxSample, rxDelayStart, rxWokeAt>>
irqHist == <<irqCount, nUp, nDown, lastIrq, scenario, irqLog>>
queueHist == <<nSent, nFailed, nReceived>>
timeVars == <<xTickCount, uptime, lateTicks>>


----------------------------------------------------------------------------
(* The kernel: scheduler, delays, tick                                     *)

\* The value of a uint32_t below 2^31.
U32ToNat(a) == a[1] * Half + a[2]

Min(S) == CHOOSE x \in S : \A y \in S : x <= y

\* Ages of triggers are counted up to AgeCap, which stands for "more than
\* DebounceTicks ticks ago, or never".
AgeCap == DebounceTicks + 1

\* The priorities vBlinkyTask passes to xTaskCreate.
PrioritySwapped(t) == IF t = "Rx" THEN mainQUEUE_SEND_TASK_PRIORITY
                                  ELSE mainQUEUE_RECEIVE_TASK_PRIORITY

Priority(t) == IF t = "Rx" THEN mainQUEUE_RECEIVE_TASK_PRIORITY
                           ELSE mainQUEUE_SEND_TASK_PRIORITY

TaskState(t) == IF t = "Rx" THEN rxState ELSE txState

\* A created task in the Ready state, once the scheduler runs.
Ready(t) == bootPc = "done" /\ t \in created /\ TaskState(t) = "ready"

\* The task that executes: the Ready task of the highest priority.
Running(t) == Ready(t) /\ \A u \in Tasks : Ready(u) => Priority(u) <= Priority(t)

\* vTaskDelayUntil( &prev, inc ) at tick now: the new *pxPreviousWakeTime
\* and whether the caller blocks until it.
vTaskDelayUntil(prev, inc, now) ==
    LET xTimeToWake == U32Add(prev, inc)
        xShouldDelay ==
            IF U32Lt(now, prev)
            THEN U32Lt(xTimeToWake, prev) /\ U32Gt(xTimeToWake, now)
            ELSE U32Lt(xTimeToWake, prev) \/ U32Gt(xTimeToWake, now)
    IN  [wake |-> xTimeToWake, block |-> xShouldDelay]

\* vTaskDelay( ticks ) at tick now: the caller blocks for that many ticks; a
\* delay of 0 only yields.
vTaskDelay(ticks, now) ==
    [wake |-> U32Add(now, ticks), block |-> ticks # U32(0)]

\* xQueueSend( queue, &item, 0 ): with a block time of 0 the call fails at
\* once (errQUEUE_FULL) when the queue is full; otherwise the item is queued,
\* and a task blocked on the queue is made Ready.
xQueueSend(queue, item) ==
    IF Len(queue) < QueueLength
    THEN [result |-> "pdPASS", queue |-> Append(queue, item)]
    ELSE [result |-> "errQUEUE_FULL", queue |-> queue]

\* xQueueReceive( queue, &item, xTicksToWait ): the item at the head of the
\* queue is taken; on an empty queue the caller blocks until an item is sent
\* (portMAX_DELAY) or the call returns at once without an item (0).
xQueueReceive(queue, xTicksToWait) ==
    IF queue # <<>>
    THEN [result |-> "pdPASS", item |-> <<Head(queue)>>, queue |-> Tail(queue)]
    ELSE IF xTicksToWait = "portMAX_DELAY"
    THEN [result |-> "block", item |-> <<>>, queue |-> queue]
    ELSE [result |-> "errQUEUE_EMPTY", item |-> <<>>, queue |-> queue]

\* Ticks until each delayed task's wake time.
Deadlines ==
    {U32ToNat(U32Sub(rxWake, xTickCount)) : x \in {t \in {"Rx"} : rxState = "delayed"}}
    \cup
    {U32ToNat(U32Sub(txWake, xTickCount)) : x \in {t \in {"Tx"} : txState = "delayed"}}

\* Ticks until the next instant at which something can happen.
Grid == IF scenario THEN ScenarioGrid ELSE TickGrid

NextInstant == Min(Deadlines \cup {Grid - (uptime % Grid)})

\* xTaskIncrementTick, d times: the tick count advances and the delayed
\* tasks whose wake time is reached become Ready.  No wake time lies
\* strictly inside the d ticks.
IncrementTick(d) ==
    LET now == U32Add(xTickCount, U32(d))
        rxDue == rxState = "delayed" /\ rxWake = now
        txDue == txState = "delayed" /\ txWake = now
    IN  /\ xTickCount' = now
        /\ uptime' = uptime + d
        /\ rxState' = IF rxDue THEN "ready" ELSE rxState
        /\ txState' = IF txDue THEN "ready" ELSE txState
        /\ rxWokeAt' = IF rxDue THEN uptime + d ELSE rxWokeAt
        /\ txWokeAt' = IF txDue THEN now ELSE txWokeAt
        /\ trigAge' = [l \in ALL_BUTTONS |-> Min({trigAge[l] + d, AgeCap})]
        /\ UNCHANGED <<bootVars, xQueue, irqVars, txPc, txWake, xNextWakeTime,
                       rxPc, rxWake, ulReceivedValue, pin, nSent, nFailed,
                       nReceived, nActivations, txStartTick, sumPeriods,
                       txLateness, rxSample, rxDelayStart, irqHist>>

\* Time passes while every task is blocked (the idle task runs).
TickIdle ==
    /\ bootPc = "done"
    /\ \A t \in Tasks : ~Ready(t)
    /\ uptime + NextInstant <= (IF scenario THEN ScenarioUptime ELSE MaxUptime)
    /\ IncrementTick(NextInstant)
    /\ UNCHANGED lateTicks

\* A tick interrupt arrives while a task is executing.
TickBusy ==
    /\ bootPc = "done"
    /\ \E t \in Tasks : Ready(t)
    /\ lateTicks < MaxLateTicks
    /\ uptime < (IF scenario THEN ScenarioUptime ELSE MaxUptime)
    /\ IncrementTick(1)
    /\ lateTicks' = lateTicks + 1

----------------------------------------------------------------------------
(* prvQueueSendTask                                                        *)

\* mainQUEUE_SEND_FREQUENCY_MS * g_fSpeed, converted to TickType_t.
TxPeriodShort(speed) ==
    FloatToTicks(FloatMulInt(mainQUEUE_SEND_FREQUENCY_MS \div 10, speed))

TxPeriodTicks(speed) ==
    FloatToTicks(FloatMulInt(mainQUEUE_SEND_FREQUENCY_MS, speed))

\* The producer's sleep: vTaskDelayUntil on xNextWakeTime.
TxSleepRelative(prev, inc, now) == vTaskDelay(inc, now)

TxSleep(prev, inc, now) == vTaskDelayUntil(prev, inc, now)

\* xNextWakeTime = xTaskGetTickCount();
TxStart ==
    /\ Running("Tx") /\ txPc = "start"
    /\ xNextWakeTime' = xTickCount
    /\ txStartTick' = xTickCount
    /\ txPc' = "delay"
    /\ UNCHANGED <<bootVars, timeVars, xQueue, irqVars, txState, txWake, rxVars,
                   pin, queueHist, nActivations, sumPeriods, txWokeAt,
                   txLateness, rxHist, irqHist, trigAge>>

\* vTaskDelayUntil( &xNextWakeTime, mainQUEUE_SEND_FREQUENCY_MS * g_fSpeed );
TxDelay ==
    /\ Running("Tx") /\ txPc = "delay"
    /\ LET inc == TxPeriodTicks(g_fSpeed)
           r   == TxSleep(xNextWakeTime, U32(inc), xTickCount)
       IN  /\ xNextWakeTime' = r.wake
           /\ txWake' = r.wake
           /\ txState' = IF r.block THEN "delayed" ELSE "ready"
           /\ sumPeriods' = sumPeriods + inc
           /\ txLateness' = U32ToNat(U32Sub(xTickCount, xNextWakeTime))
    /\ txPc' = "send"
    /\ UNCHANGED <<bootVars, timeVars, xQueue, irqVars, rxVars, pin, queueHist,
                   nActivations, txStartTick, txWokeAt, rxHist, irqHist, trigAge>>

\* xQueueSend( xQueue, &ulValueToSend, 0U ); the result is not examined.
TxSend ==
    /\ Running("Tx") /\ txPc = "send"
    /\ LET r == xQueueSend(xQueue, ulValueToSend)
       IN  /\ xQueue' = r.queue
           /\ rxState' = IF r.result = "pdPASS" /\ rxState = "waitQueue"
                         THEN "ready" ELSE rxState
           /\ nFailed' = IF r.result = "pdPASS" THEN nFailed ELSE nFailed + 1
    /\ nSent' = nSent + 1
    /\ txPc' = "delay"
    /\ UNCHANGED <<bootVars, timeVars, irqVars, txState, txWake, xNextWakeTime,
                   rxPc, rxWake, ulReceivedValue, pin, nReceived, nActivations,
                   txHist, rxHist, irqHist, trigAge>>

----------------------------------------------------------------------------
(* prvQueueReceiveTask                                                     *)

\* The block time of the consumer's xQueueReceive.
RxNoBlockTime == "0"

RxBlockTime == "portMAX_DELAY"

\* xShortBlock * g_fSpeed, converted to TickType_t.
RxDelayUnscaled(speed) == xShortBlock

RxDelayLong(speed) == FloatToTicks(FloatMulInt(3 * xShortBlock, speed))

RxDelayTicks(speed) == FloatToTicks(FloatMulInt(xShortBlock, speed))

\* xQueueReceive( xQueue, &ulReceivedValue, portMAX_DELAY ); the result is
\* not examined, and ulReceivedValue is written only when an item arrived.
\* A blocked consumer repeats the call when it is made Ready.
RxReceive ==
    /\ Running("Rx") /\ rxPc = "recv"
    /\ LET r == xQueueReceive(xQueue, RxBlockTime)
       IN  /\ xQueue' = r.queue
           /\ ulReceivedValue' = IF r.result = "pdPASS" THEN r.item[1]
                                  ELSE ulReceivedValue
           /\ nReceived' = IF r.result = "pdPASS" THEN nReceived + 1
                            ELSE nReceived
           /\ rxState' = IF r.result = "block" THEN "waitQueue" ELSE rxState
           /\ rxPc' = IF r.result = "block" THEN "recv" ELSE "check"
    /\ UNCHANGED <<bootVars, timeVars, irqVars, txVars, rxWake, pin, nSent,
                   nFailed, nActivations, txHist, rxHist, irqHist, trigAge>>

\* if( ulReceivedValue == 100UL ) GPIOPinWrite( ..., BLUE_LED_PIN );
RxCheck ==
    /\ Running("Rx") /\ rxPc = "check"
    /\ IF ulReceivedValue = ulValueToSend
       THEN /\ pin' = "active"
            /\ nActivations' = nActivations + 1
            /\ rxPc' = "delay"
       ELSE /\ rxPc' = "recv"
            /\ UNCHANGED <<pin, nActivations>>
    /\ UNCHANGED <<bootVars, timeVars, xQueue, irqVars, txVars, rxState, rxWake,
                   ulReceivedValue, queueHist, txHist, rxHist, irqHist, trigAge>>

\* vTaskDelay( xShortBlock * g_fSpeed );
RxDelay ==
    /\ Running("Rx") /\ rxPc = "delay"
    /\ LET r == vTaskDelay(U32(RxDelayTicks(g_fSpeed)), xTickCount)
       IN  /\ rxWake' = r.wake
           /\ rxState' = IF r.block THEN "delayed" ELSE "ready"
    /\ rxSample' = g_fSpeed
    /\ rxDelayStart' = uptime
    /\ rxWokeAt' = uptime
    /\ rxPc' = "ledOff"
    /\ UNCHANGED <<bootVars, timeVars, xQueue, irqVars, txVars, ulReceivedValue,
                   pin, queueHist, nActivations, txHist, irqHist, trigAge>>

\* GPIOPinWrite( ..., RED_LED_PIN ); ulReceivedValue = 0U;
\* The consumer restores nothing but its own variable at the end of a cycle.
RxLedOffResetsRate ==
    /\ Running("Rx") /\ rxPc = "ledOff"
    /\ pin' = "inactive"
    /\ ulReceivedValue' = 0
    /\ g_fSpeed' = InitialSpeed
    /\ rxPc' = "recv"
    /\ UNCHANGED <<bootVars, timeVars, xQueue, g_ui32TimeStamp, txVars, rxState,
                   rxWake, queueHist, nActivations, txHist, rxHist, irqHist,
                   trigAge>>

RxLedOff ==
    /\ Running("Rx") /\ rxPc = "ledOff"
    /\ pin' = "inactive"
    /\ ulReceivedValue' = 0
    /\ rxPc' = "recv"
    /\ UNCHANGED <<bootVars, timeVars, xQueue, irqVars, txVars, rxState, rxWake,
                   queueHist, nActivations, txHist, rxHist, irqHist, trigAge>>


----------------------------------------------------------------------------
(* xButtonsHandler                                                         *)

\* if( ( xTaskGetTickCount() - g_ui32TimeStamp ) > 200 )
DebounceSumWraps(now, stamp) ==
    U32Gt(now, U32Add(stamp, U32(DebounceTicks)))

DebounceAtLeast(now, stamp) ==
    ~U32Lt(U32Sub(now, stamp), U32(DebounceTicks))

DebouncePassed(now, stamp) ==
    U32Gt(U32Sub(now, stamp), U32(DebounceTicks))

\* A handler that takes the right-button branch without storing the product.
SpeedUpLost(f) == f

\* g_fSpeed *= (1 + BLINK_RATE);  g_fSpeed *= (1 - BLINK_RATE);
SpeedDown(f) == FloatMulDouble(f, OneMinusBlinkRate, -53)

SpeedUp(f) == FloatMulDouble(f, OnePlusBlinkRate, -52)

\* The debounce test of an invocation: one time stamp serves both lines, and
\* the status word plays no part in the test.
DebouncePerLine(ui32Status) ==
    \A l \in ui32Status : trigAge[l] > DebounceTicks

DebounceFilter(ui32Status) == DebouncePassed(xTickCount, g_ui32TimeStamp)

\* g_ui32TimeStamp = xTaskGetTickCount(); after the if, whether or not the
\* event passed the filter.
StampWhenAccepted(pass, now, stamp) == IF pass THEN now ELSE stamp

UpdatedTimeStamp(pass, now, stamp) == now

\* The factor the handler applies for a status word: "up", "down" or "none".
\* The right button is tested first and the left one only in its else branch.
AppliedLeftFirst(status) ==
    IF LEFT_BUTTON \in status THEN "down"
    ELSE IF RIGHT_BUTTON \in status THEN "up"
    ELSE "none"

Applied(status) ==
    IF RIGHT_BUTTON \in status THEN "up"
    ELSE IF LEFT_BUTTON \in status THEN "down"
    ELSE "none"

\* The handler runs to completion on top of whatever was executing: it reads
\* and clears the pending status, filters, adjusts g_fSpeed and stamps.
xButtonsHandler(ui32Status) ==
    /\ LET pass == DebounceFilter(ui32Status)
           what == IF pass THEN Applied(ui32Status) ELSE "none"
       IN  /\ g_ui32TimeStamp' =
                  UpdatedTimeStamp(pass, xTickCount, g_ui32TimeStamp)
           /\ g_fSpeed' = CASE what = "up"   -> SpeedUp(g_fSpeed)
                            [] what = "down" -> SpeedDown(g_fSpeed)
                            [] OTHER         -> g_fSpeed
           /\ nUp' = IF what = "up" THEN nUp + 1 ELSE nUp
           /\ nDown' = IF what = "down" THEN nDown + 1 ELSE nDown
           /\ lastIrq' = [status |-> ui32Status,
                          gap |-> Min({trigAge[l] : l \in ui32Status}),
                          sinceAny |-> Min({trigAge[l] : l \in ALL_BUTTONS}),
                          before |-> g_fSpeed]
           /\ irqLog' = IF scenario
                        THEN Append(irqLog, [at |-> uptime, status |-> ui32Status,
                                             speed |-> g_fSpeed'])
                        ELSE irqLog
    /\ irqCount' = irqCount + 1
    /\ trigAge' = [l \in ALL_BUTTONS |->
                     IF l \in ui32Status THEN 0 ELSE trigAge[l]]
    /\ UNCHANGED <<scenario, bootVars, timeVars, xQueue, txVars, rxVars, pin, queueHist,
                   nActivations, txHist, rxHist>>

\* A falling edge on one or both lines invokes the handler.
ButtonInterrupt ==
    /\ irqCount < MaxIrq
    /\ \E ui32Status \in StatusWords : xButtonsHandler(ui32Status)

----------------------------------------------------------------------------
(* vBlinkyTask and the start of the scheduler                              *)

bootFrame == <<timeVars, xQueue, irqVars, txVars, rxVars, pin, queueHist,
               nActivations, txHist, rxHist, irqHist, trigAge>>

\* xQueue = xQueueCreate( 1, sizeof( uint32_t ) ); if( xQueue != NULL ) ...
\* The allocation succeeds or returns NULL.
CreateQueue ==
    /\ bootPc = "createQueue"
    /\ \E ok \in BOOLEAN :
         /\ queueCreated' = ok
         /\ bootPc' = IF ok THEN "createRx" ELSE "return"
    /\ UNCHANGED <<created, bootFrame>>

\* xTaskCreate( prvQueueReceiveTask, ... ); the result is not examined.
CreateRx ==
    /\ bootPc = "createRx"
    /\ \E ok \in BOOLEAN :
         created' = IF ok THEN created \cup {"Rx"} ELSE created
    /\ bootPc' = "createTx"
    /\ UNCHANGED <<queueCreated, bootFrame>>

\* xTaskCreate( prvQueueSendTask, ... ); the result is not examined.
CreateTx ==
    /\ bootPc = "createTx"
    /\ \E ok \in BOOLEAN :
         created' = IF ok THEN created \cup {"Tx"} ELSE created
    /\ bootPc' = "return"
    /\ UNCHANGED <<queueCreated, bootFrame>>

\* vBlinkyTask returns and its caller starts the scheduler.
StartScheduler ==
    /\ bootPc = "return"
    /\ bootPc' = "done"
    /\ UNCHANGED <<queueCreated, created, bootFrame>>

----------------------------------------------------------------------------
(* Specifications                                                          *)

\* The globals and task locals as the program text initialises them.
\* ulReceivedValue is not initialised: it holds any value, of which one that
\* is the expected payload and one that is not are modelled.
InitCommon ==
    /\ xTickCount = U32(0)
    /\ xQueue = <<>>
    /\ g_fSpeed = InitialSpeed
    /\ g_ui32TimeStamp = U32(0)
    /\ txPc = "start" /\ txState = "ready" /\ txWake = U32(0)
    /\ xNextWakeTime = U32(0)
    /\ rxPc = "recv" /\ rxState = "ready" /\ rxWake = U32(0)
    /\ ulReceivedValue \in {0, ulValueToSend}
    /\ pin = "none"
    /\ uptime = 0 /\ lateTicks = 0
    /\ nSent = 0 /\ nFailed = 0 /\ nReceived = 0 /\ nActivations = 0
    /\ txStartTick = U32(0) /\ sumPeriods = 0 /\ txWokeAt = U32(0)
    /\ txLateness = 0
    /\ rxSample = InitialSpeed /\ rxDelayStart = 0 /\ rxWokeAt = 0
    /\ irqCount = 0 /\ nUp = 0 /\ nDown = 0
    /\ trigAge = [l \in ALL_BUTTONS |-> AgeCap]
    /\ lastIrq = [status |-> {}, gap |-> AgeCap, sinceAny |-> AgeCap,
                  before |-> InitialSpeed]
    /\ irqLog = <<>>

\* After a successful start: the queue and both tasks exist and the
\* scheduler runs.
Started ==
    /\ bootPc = "done"
    /\ queueCreated = TRUE
    /\ created = Tasks
    /\ InitCommon

Init == Started /\ scenario = FALSE

Next ==
    \/ TickIdle
    \/ TickBusy
    \/ TxStart
    \/ TxDelay
    \/ TxSend
    \/ RxReceive
    \/ RxCheck
    \/ RxDelay
    \/ RxLedOff
    \/ ButtonInterrupt

Spec == Init /\ [][Next]_vars

\* The first ScenarioUptime ticks after a successful start, with a log of
\* the handler's invocations.  The producer's first wake-up lies beyond
\* them, so only these actions can occur.
ScenarioInit == Started /\ scenario = TRUE

ScenarioNext ==
    \/ TickIdle
    \/ TickBusy
    \/ TxStart
    \/ TxDelay
    \/ RxReceive
    \/ ButtonInterrupt

ScenarioSpec == ScenarioInit /\ [][ScenarioNext]_vars

\* From the entry of vBlinkyTask, where each allocation can fail, through
\* the first ScenarioUptime ticks.
BootInit ==
    /\ bootPc = "createQueue"
    /\ queueCreated = FALSE
    /\ created = {}
    /\ InitCommon
    /\ scenario = TRUE

BootNext ==
    \/ CreateQueue
    \/ CreateRx
    \/ CreateTx
    \/ StartScheduler
    \/ ScenarioNext

BootSpec == BootInit /\ [][BootNext]_vars


\* The long run from every outcome of vBlinkyTask in which the queue was
\* created: each xTaskCreate succeeded or failed, and the scheduler started
\* anyway (the results are not examined).
AnyStartInit ==
    /\ bootPc = "done"
    /\ queueCreated = TRUE
    /\ created \in SUBSET Tasks
    /\ InitCommon
    /\ scenario = FALSE

AnyStartSpec == AnyStartInit /\ [][Next]_vars


\* The first ScenarioUptime ticks after a successful start with a longer
\* train of edges.
TrainInterrupt ==
    /\ irqCount < MaxTrain
    /\ \E ui32Status \in StatusWords : xButtonsHandler(ui32Status)

TrainNext ==
    \/ TickIdle
    \/ TickBusy
    \/ TxStart
    \/ TxDelay
    \/ RxReceive
    \/ TrainInterrupt

TrainSpec == ScenarioInit /\ [][TrainNext]_vars


\* The left button pressed again and again, each press as soon as the
\* debounce window of the press before it is over, from a successful start.
\* While every task is blocked, time advances to the next wake time or to
\* the end of the debounce window, whichever comes first.
QuietTicks ==
    LET elapsed == U32Sub(xTickCount, g_ui32TimeStamp)
    IN  Min(Deadlines \cup
            (IF U32Gt(elapsed, U32(DebounceTicks)) THEN {}
             ELSE {DebounceTicks + 1 - U32ToNat(elapsed)}))

QuietTick ==
    /\ bootPc = "done"
    /\ \A t \in Tasks : ~Ready(t)
    /\ \/ irqCount = MaxPresses
       \/ ~DebouncePassed(xTickCount, g_ui32TimeStamp)
    /\ uptime + QuietTicks <= SlowDownUptime
    /\ IncrementTick(QuietTicks)
    /\ UNCHANGED lateTicks

LeftPress ==
    /\ irqCount < MaxPresses
    /\ DebouncePassed(xTickCount, g_ui32TimeStamp)
    /\ xButtonsHandler({LEFT_BUTTON})

SlowDownNext ==
    \/ QuietTick
    \/ LeftPress
    \/ nSent < MaxSends /\ TxStart
    \/ nSent < MaxSends /\ TxDelay
    \/ nSent < MaxSends /\ TxSend
    \/ nSent < MaxSends /\ RxReceive
    \/ nSent < MaxSends /\ RxCheck
    \/ nSent < MaxSends /\ RxDelay
    \/ nSent < MaxSends /\ RxLedOff

SlowDownSpec == Init /\ [][SlowDownNext]_vars


\* ScenarioUptime ticks around the wrap of the tick counter, 2^32 ticks
\* after a successful start during which no button was pressed: at tick
\* 2^32 - 296 = 4294967 * 1000 the producer has just been unblocked for
\* its next send and the consumer is blocked on the empty queue.  The
\* counters of the history start at this state.
WrapStartTick == <<Half - 1, Half - 296>>

WrapInit ==
    /\ bootPc = "done" /\ queueCreated = TRUE /\ created = Tasks
    /\ scenario = TRUE
    /\ xTickCount = WrapStartTick
    /\ xQueue = <<>>
    /\ g_fSpeed = InitialSpeed
    /\ g_ui32TimeStamp = U32(0)
    /\ txPc = "send" /\ txState = "ready"
    /\ txWake = WrapStartTick /\ xNextWakeTime = WrapStartTick
    /\ rxPc = "recv" /\ rxState = "waitQueue"
    /\ rxWake = U32Sub(WrapStartTick, U32(xShortBlock))
    /\ ulReceivedValue = 0
    /\ pin = "inactive"
    /\ uptime = 0 /\ lateTicks = 0
    /\ nSent = 0 /\ nFailed = 0 /\ nReceived = 0 /\ nActivations = 0
    /\ txStartTick = WrapStartTick /\ sumPeriods = 0
    /\ txWokeAt = WrapStartTick /\ txLateness = 0
    /\ rxSample = InitialSpeed /\ rxDelayStart = 0 /\ rxWokeAt = 0
    /\ irqCount = 0 /\ nUp = 0 /\ nDown = 0
    /\ trigAge = [l \in ALL_BUTTONS |-> AgeCap]
    /\ lastIrq = [status |-> {}, gap |-> AgeCap, sinceAny |-> AgeCap,
                  before |-> InitialSpeed]
    /\ irqLog = <<>>

WrapNext ==
    \/ TickIdle
    \/ TickBusy
    \/ TxDelay
    \/ TxSend
    \/ RxReceive
    \/ RxCheck
    \/ RxDelay
    \/ RxLedOff
    \/ ButtonInterrupt

WrapSpec == WrapInit /\ [][WrapNext]_vars


----------------------------------------------------------------------------
(* Numbers the claims are stated in                                        *)

RECURSIVE Pow(_, _)
Pow(b, n) == IF n = 0 THEN 1 ELSE b * Pow(b, n - 1)

\* Long division of n by d, doubling until the quotient has 24 bits:
\* <<quotient, remainder, number of doublings>>.
RECURSIVE Scale(_, _, _, _)
Scale(q, r, d, k) ==
    IF q >= 2^23 THEN <<q, r, k>>
    ELSE Scale(2 * q + ((2 * r) \div d), (2 * r) % d, d, k + 1)

\* The float nearest to the rational n / d (0 < n / d < 2^23).
NearestFloat(n, d) ==
    LET x == Scale(n \div d, n % d, d, 0)
    IN  FPack(RoundEven(x[1], 2 * x[2], d, FALSE), 150 - x[3])

\* The float nearest to 1.1^n * 0.9^m.
ExactRate(n, m) == NearestFloat(Pow(11, n) * Pow(9, m), Pow(10, n + m))

\* The distance between two positive floats in units in the last place.
UlpDistance(f, g) == IF f >= g THEN f - g ELSE g - f

\* k * f in real arithmetic, truncated to a whole number, for a float
\* f < 2^11 and an integer 0 < k < 2^12.
WholeTicks(k, f) ==
    LET m == FMan(f)
        h == (m \div 2^12) * k + (((m % 2^12) * k) \div 2^12)
    IN  h \div 2^(138 - FExp(f))

----------------------------------------------------------------------------
(* Claims                                                                  *)

\* C1: in the started system, whatever the interleaving of the two tasks,
\* ticks and button interrupts, no payload is lost or duplicated: no
\* xQueueSend fails, every payload sent is either still in the queue or was
\* received once, and the receives number the sends or one less.
C1_NoLossNoDuplicate ==
    /\ nFailed = 0
    /\ nReceived + Len(xQueue) = nSent
    /\ nSent - nReceived \in {0, 1}

\* Two payloads were sent and both were received.
C1_Witness == nSent = 2 /\ nReceived = 2

\* C2: whenever the producer executes its xQueueSend the queue is empty and
\* the consumer, its active delay over, is blocked in xQueueReceive; no send
\* has failed on a full queue.
C2_QueueEmptyAtSend ==
    /\ nFailed = 0
    /\ (Running("Tx") /\ txPc = "send") =>
           /\ xQueue = <<>>
           /\ rxPc = "recv" /\ rxState = "waitQueue"

\* The producer is about to send for the second time, after a rate change.
C2_Witness ==
    /\ Running("Tx") /\ txPc = "send"
    /\ nSent = 1 /\ nUp + nDown >= 1

\* C3: a trigger on a line at most DebounceTicks ticks after the previous
\* trigger on that line does not change g_fSpeed.
C3_SecondTriggerIgnored ==
    lastIrq.gap <= DebounceTicks => g_fSpeed = lastIrq.before

\* The first trigger on the right button raised the rate; the second,
\* exactly 200 ticks later, did not.
C3_Witness ==
    /\ irqCount = 2 /\ nUp = 1
    /\ lastIrq.status = {RIGHT_BUTTON}
    /\ lastIrq.gap = DebounceTicks
    /\ g_fSpeed = SpeedUp(InitialSpeed)

\* C4: after interrupts on the (1 + step) line at tick 100 and at tick 250,
\* from the initial state, g_fSpeed is 1.1: the first changed it from 1.0 to
\* 1.1 and the second was discarded.
C4_FirstPressAt100 ==
    (/\ Len(irqLog) = 2
     /\ irqLog[1].at = 100 /\ irqLog[1].status = {RIGHT_BUTTON}
     /\ irqLog[2].at = 250 /\ irqLog[2].status = {RIGHT_BUTTON})
    => /\ irqLog[1].speed = NearestFloat(11, 10)
       /\ irqLog[2].speed = NearestFloat(11, 10)
       /\ g_fSpeed = NearestFloat(11, 10)

\* C5: after an interrupt on the (1 + step) line at tick 0 and one on the
\* (1 - step) line at tick 300, from the initial state, g_fSpeed has gone
\* from 1.0 to 1.1 and then to 0.99.
C5_PressesAt0And300 ==
    (/\ Len(irqLog) = 2
     /\ irqLog[1].at = 0 /\ irqLog[1].status = {RIGHT_BUTTON}
     /\ irqLog[2].at = 300 /\ irqLog[2].status = {LEFT_BUTTON})
    => /\ irqLog[1].speed = NearestFloat(11, 10)
       /\ irqLog[2].speed = NearestFloat(99, 100)
       /\ g_fSpeed = NearestFloat(99, 100)

\* C6, as claimed: after nUp applications of (1 + step) and nDown of
\* (1 - step), g_fSpeed is the float 1.1^nUp * 0.9^nDown, whatever the order.
C6_ExactProduct == g_fSpeed = ExactRate(nUp, nDown)

\* C6, amended: g_fSpeed is within nUp + nDown units in the last place of
\* the float nearest to 1.1^nUp * 0.9^nDown.
C6_WithinTolerance ==
    UlpDistance(g_fSpeed, ExactRate(nUp, nDown)) <= nUp + nDown

\* One update of each kind was applied, in the order that does not give the
\* float nearest to 0.99.
C6_Witness ==
    /\ nUp = 1 /\ nDown = 1
    /\ g_fSpeed # ExactRate(1, 1)

\* C7: the pin is active exactly from the consumer's pin write after a
\* receive until its pin write after the delay, so it is inactive again
\* before the next receive; the delay lasts 500 * g_fSpeed ticks, to the
\* whole tick, for the g_fSpeed read when the delay began, whatever g_fSpeed
\* becomes meanwhile.
C7_ActiveInterval ==
    /\ pin = "active" <=> rxPc \in {"delay", "ledOff"}
    /\ rxPc = "recv" => pin # "active"
    /\ (rxPc = "ledOff" /\ rxState = "delayed") =>
           uptime - rxDelayStart <= WholeTicks(xShortBlock, rxSample)
    /\ (rxPc = "ledOff" /\ rxState = "ready") =>
           rxWokeAt - rxDelayStart \in
               {WholeTicks(xShortBlock, rxSample),
                WholeTicks(xShortBlock, rxSample) + 1}

\* The consumer's delay is over; it began at a rate other than 1 and the
\* rate changed during it.
C7_Witness ==
    /\ rxPc = "ledOff" /\ rxState = "ready"
    /\ rxSample # InitialSpeed
    /\ g_fSpeed # rxSample

\* C8: the consumer drives the pin active only for a payload it received,
\* and receives only payloads the producer sent: the activations are at most
\* the receives, which are at most the sends.
C8_ActivationNeedsPayload ==
    /\ nActivations <= nReceived
    /\ nReceived <= nSent

\* The pin was driven active for the second payload.
C8_Witness == nActivations = 2 /\ nSent = 2

\* C9: the producer's wake time is the tick captured at its start plus the
\* sum of the periods passed to vTaskDelayUntil, and the producer is
\* unblocked at exactly that tick, however late it made the call.
C9_AbsoluteWakeTimes ==
    /\ txPc # "start" =>
           xNextWakeTime = U32Add(txStartTick, U32(sumPeriods))
    /\ (txPc = "send" /\ txState = "ready") => txWokeAt = xNextWakeTime

\* The producer woke on time from a vTaskDelayUntil it had called late.
C9_Witness ==
    /\ txPc = "send" /\ txState = "ready"
    /\ nSent >= 1 /\ txLateness >= 1

\* C10: no task runs unless the queue and both tasks exist.
C10_RefusesToStart ==
    (bootPc = "done" /\ (txPc # "start" \/ rxState = "waitQueue"))
    => (queueCreated /\ created = Tasks)

\* C11: in every reachable state, whichever tasks were created, the queue
\* holds no item or one item: never more than the one slot it was created
\* with.
C11_OccupancyAtMostOne == Len(xQueue) \in {0, 1}

\* The queue holds one item after a send on the full queue was refused.
C11_Witness == Len(xQueue) = 1 /\ nFailed >= 1

\* C12: every step of prvQueueSendTask and of prvQueueReceiveTask leaves
\* g_fSpeed and g_ui32TimeStamp unchanged, and a step that changes either of
\* them is an invocation of xButtonsHandler.
C12_OnlyHandlerWrites ==
    [][/\ (TxStart \/ TxDelay \/ TxSend \/ RxReceive \/ RxCheck \/ RxDelay
            \/ RxLedOff) => UNCHANGED <<g_fSpeed, g_ui32TimeStamp>>
       /\ (g_fSpeed' # g_fSpeed \/ g_ui32TimeStamp' # g_ui32TimeStamp)
              => irqCount' = irqCount + 1]_vars

\* Both tasks completed a cycle after the handler had changed both variables.
C12_Witness ==
    /\ g_fSpeed # InitialSpeed /\ g_ui32TimeStamp # U32(0)
    /\ rxPc = "recv" /\ nActivations >= 1
    /\ txPc = "send" /\ nSent >= 1

\* C13: every invocation of the handler, accepted or discarded, leaves
\* g_ui32TimeStamp at the tick of the invocation, so the elapsed ticks the
\* next invocation computes are the ticks since the last edge on either line;
\* an edge at most DebounceTicks ticks after the edge before it does not
\* change g_fSpeed, and an edge that changed g_fSpeed came more than
\* DebounceTicks ticks after the edge before it.
C13_WindowRestartsAtEveryEdge ==
    /\ irqCount > 0 =>
           LET elapsed == U32Sub(xTickCount, g_ui32TimeStamp)
           IN  (IF U32Gt(elapsed, U32(DebounceTicks)) THEN AgeCap
                ELSE U32ToNat(elapsed))
               = Min({trigAge[l] : l \in ALL_BUTTONS})
    /\ lastIrq.sinceAny <= DebounceTicks => g_fSpeed = lastIrq.before
    /\ g_fSpeed # lastIrq.before => lastIrq.sinceAny > DebounceTicks

\* A train of three edges: the first was accepted, each of the others came
\* at most DebounceTicks ticks after the one before it and was discarded,
\* the last of them more than DebounceTicks ticks after the first.
C13_Witness ==
    /\ Len(irqLog) = 3
    /\ irqLog[1].speed # InitialSpeed
    /\ \A i \in 2..3 : /\ irqLog[i].at - irqLog[i - 1].at <= DebounceTicks
                        /\ irqLog[i].speed = irqLog[1].speed
    /\ irqLog[3].at - irqLog[1].at > DebounceTicks
    /\ g_fSpeed = irqLog[1].speed

\* C14: an invocation of the handler at which more than DebounceTicks ticks
\* have elapsed since g_ui32TimeStamp changes g_fSpeed: to g_fSpeed times
\* (1 + step) when only the right button is pending, to g_fSpeed times
\* (1 - step) when only the left button is pending, and to one of the two
\* when both are; an invocation at which exactly DebounceTicks ticks have
\* elapsed leaves g_fSpeed as it was.
C14_AcceptedIffElapsedOver200 ==
    [][irqCount' = irqCount + 1 =>
         LET elapsed == U32Sub(xTickCount, g_ui32TimeStamp)
             status  == lastIrq'.status
         IN  /\ U32Gt(elapsed, U32(DebounceTicks)) =>
                    /\ g_fSpeed' # g_fSpeed
                    /\ status = {RIGHT_BUTTON} => g_fSpeed' = SpeedUp(g_fSpeed)
                    /\ status = {LEFT_BUTTON} => g_fSpeed' = SpeedDown(g_fSpeed)
                    /\ status = ALL_BUTTONS =>
                           g_fSpeed' \in {SpeedUp(g_fSpeed), SpeedDown(g_fSpeed)}
             /\ elapsed = U32(DebounceTicks) => g_fSpeed' = g_fSpeed]_vars

\* An edge on the left button was accepted and lowered the rate; the next
\* invocation, exactly DebounceTicks ticks later, left it there.
C14_Witness ==
    /\ irqCount = 2 /\ nDown = 1 /\ nUp = 0
    /\ lastIrq.sinceAny = DebounceTicks
    /\ lastIrq.before = SpeedDown(InitialSpeed)
    /\ g_fSpeed = SpeedDown(InitialSpeed)

\* C15: the producer never executes while the consumer is Ready: no step of
\* prvQueueSendTask is taken with the consumer Ready, and when the producer
\* executes the statement after a send (its vTaskDelayUntil) the consumer
\* has received the payload, driven the pin active and entered its delay.
C15_ConsumerPreferred ==
    [][/\ ~(Running("Tx") /\ Ready("Rx"))
       /\ (TxStart \/ TxDelay \/ TxSend) => rxState # "ready"
       /\ (TxDelay /\ nSent >= 1) =>
              /\ nReceived = nSent /\ nActivations = nSent
              /\ pin = "active"
              /\ rxPc = "ledOff" /\ rxState = "delayed"]_vars

\* The producer is about to execute the statement after its second send;
\* the consumer is in its delay with the pin active.
C15_Witness ==
    /\ Running("Tx") /\ txPc = "delay" /\ nSent = 2
    /\ rxPc = "ledOff" /\ rxState = "delayed" /\ pin = "active"

\* C16: an edge on one line that comes at most DebounceTicks ticks after an
\* invocation for the other line, its own line having been quiet for longer,
\* is discarded: g_fSpeed stays as it was.
C16_WindowSharedByBothLines ==
    (/\ Cardinality(lastIrq.status) = 1
     /\ lastIrq.gap > DebounceTicks
     /\ lastIrq.sinceAny <= DebounceTicks)
    => g_fSpeed = lastIrq.before

\* An edge on the right button was accepted; the first edge ever on the left
\* button came within DebounceTicks ticks of it and changed nothing.
C16_Witness ==
    /\ irqCount = 2 /\ nUp = 1 /\ nDown = 0
    /\ lastIrq.status = {LEFT_BUTTON}
    /\ lastIrq.gap > DebounceTicks
    /\ lastIrq.sinceAny <= DebounceTicks
    /\ g_fSpeed = SpeedUp(InitialSpeed)

\* C17: one invocation of the handler multiplies g_fSpeed at most once;
\* with both buttons pending and more than DebounceTicks ticks elapsed it
\* applies (1 + step) alone, not (1 - step) and not both.
C17_AtMostOneFactor ==
    [][irqCount' = irqCount + 1 =>
         /\ g_fSpeed' \in {g_fSpeed, SpeedUp(g_fSpeed), SpeedDown(g_fSpeed)}
         /\ (nUp' - nUp) + (nDown' - nDown) \in {0, 1}
         /\ (/\ lastIrq'.status = ALL_BUTTONS
             /\ U32Gt(U32Sub(xTickCount, g_ui32TimeStamp), U32(DebounceTicks)))
            => /\ g_fSpeed' = SpeedUp(g_fSpeed)
               /\ nUp' = nUp + 1 /\ nDown' = nDown]_vars

\* An invocation with both buttons pending raised a rate that an earlier
\* edge had lowered.
C17_Witness ==
    /\ irqCount = 2 /\ nUp = 1 /\ nDown = 1
    /\ lastIrq.status = ALL_BUTTONS
    /\ lastIrq.before = SpeedDown(InitialSpeed)
    /\ g_fSpeed = SpeedUp(SpeedDown(InitialSpeed))

\* C18: for every g_fSpeed the accepted presses lead to, the producer's
\* increment, 1000 * g_fSpeed in whole ticks, is at least one tick and
\* greater than the consumer's delay, 500 * g_fSpeed in whole ticks.
C18_PeriodAtLeastOneTick ==
    /\ TxPeriodTicks(g_fSpeed) >= 1
    /\ TxPeriodTicks(g_fSpeed) > RxDelayTicks(g_fSpeed)

\* C19: around the wrap of the tick counter, an invocation of the handler
\* whose true distance from the invocation before it is more than
\* DebounceTicks ticks is accepted (g_fSpeed is multiplied by the factor of
\* the pending button), and one whose true distance is at most DebounceTicks
\* ticks is discarded, whether or not the counter wrapped between the two.
C19_DebounceAcrossWrap ==
    \A i \in 2..Len(irqLog) :
        LET distance == irqLog[i].at - irqLog[i - 1].at
            before   == irqLog[i - 1].speed
        IN  irqLog[i].speed =
                IF distance <= DebounceTicks THEN before
                ELSE IF RIGHT_BUTTON \in irqLog[i].status THEN SpeedUp(before)
                ELSE SpeedDown(before)

\* Two invocations, one before the wrap and one after it, more than
\* DebounceTicks ticks apart: both were accepted.
C19_Witness ==
    /\ Len(irqLog) = 2
    /\ U32Add(WrapStartTick, U32(irqLog[1].at))[1] = Half - 1
    /\ U32Add(WrapStartTick, U32(irqLog[2].at))[1] = 0
    /\ irqLog[2].at - irqLog[1].at > DebounceTicks
    /\ nUp + nDown = 2
    /\ g_ui32TimeStamp = xTickCount

============================================================================
